---- MODULE Spec2Model ----
(***************************************************************************)
(* Model of GeoIpResolver (src/src/murmur/GeoIpResolver.h): the pending    *)
(* callback map, its mutex, the resolve() dispatcher and the               *)
(* finishRequest() correlator, with one caller thread and the thread of    *)
(* the event loop that delivers QNetworkAccessManager::finished.           *)
(*                                                                         *)
(* std::string values are sequences of tokens; the token "/" is the        *)
(* character '/', the token "%" is a percent sign that does not start a    *)
(* valid escape.  std::optional<T> is a set with at most one element.      *)
(***************************************************************************)
EXTENDS Integers, Sequences, FiniteSets, TLC

\* ------------------------------------------------------------------ bounds
MaxCalls == 3

CallIds == 1..MaxCalls
NoCall  == 0

\* ------------------------------------------------------- strings and keys
\* connection strings the callers pass to resolve(): two plain ones and one
\* that contains '/'
Keys == { <<"b">>, <<"c">>, <<"a", "/", "b">> }

UrlPrefix == <<"http:", "/", "/", "ip-api.com", "/", "json", "/">>

\* QUrl(s).toString(): the tolerant parser turns a '%' that starts no valid
\* escape into "%25", and the pretty-decoded form keeps it
RECURSIVE QUrlToString(_)
QUrlToString(s) ==
    IF s = <<>> THEN <<>>
    ELSE (IF Head(s) = "%" THEN <<"%25">> ELSE <<Head(s)>>) \o QUrlToString(Tail(s))

\* request.setUrl(QUrl("http://ip-api.com/json/" + connectionString))
RequestUrl(connectionString) == QUrlToString(UrlPrefix \o connectionString)

\* std::string::find_last_of(ch) + 1, with npos + 1 wrapping to 0
FindLastOfPlus1(s, ch) ==
    LET hits == { i \in 1..Len(s) : s[i] = ch }
    IN  IF hits = {} THEN 0 ELSE CHOOSE i \in hits : \A j \in hits : j <= i

\* std::string::erase(0, n)
Erase0(s, n) == SubSeq(s, n + 1, Len(s))

\* the key finishRequest derives from reply->url()
DerivedKey(url) == Erase0(url, FindLastOfPlus1(url, "/"))

\* ------------------------------------------------------------ JSON bodies
\* nlohmann::json values: a string, a number, an object (a function from
\* member names to values) or an array
JStr(s) == [type |-> "string", s |-> s, n |-> 0]
JNum(n) == [type |-> "number", s |-> <<>>, n |-> n]
JObject(members) == [type |-> "object", obj |-> members]
JArray == [type |-> "array", obj |-> [f \in {} |-> JNum(0)]]

\* a response body: empty, all whitespace, text json::parse rejects, or
\* text that parses to the document json
Body(text, json) == [text |-> text, json |-> json]

StringFields == {"country", "countryCode", "region", "regionName", "city",
                 "zip", "timezone", "isp", "org", "as"}
NumberFields == {"lat", "lon"}

\* the bodies the transport delivers in the concurrent specification
Bodies ==
    { Body("empty", JArray),
      Body("blank", JArray),
      Body("malformed", JArray),
      Body("json", JArray),
      Body("json", JObject([status |-> JStr(<<"success">>)])),
      Body("json", JObject([query |-> JStr(<<"b">>)])),
      Body("json", JObject([query |-> JStr(<<"b">>), status |-> JStr(<<"success">>),
                            country |-> JStr(<<"United States">>), lat |-> JNum(37)])),
      Body("json", JObject([query |-> JStr(<<"b">>), status |-> JStr(<<"fail">>),
                            message |-> JStr(<<"invalid query">>)])),
      Body("json", JObject([query |-> JNum(8), status |-> JStr(<<"success">>)])) }

\* json::contains(key): false for anything that is not an object
Contains(j, key) == j.type = "object" /\ key \in DOMAIN j.obj

\* json::value(key, default) throws type_error when the document is not an
\* object (306) or the member has another type than the default (302)
ValueThrows(j, key, type) ==
    \/ j.type # "object"
    \/ key \in DOMAIN j.obj /\ j.obj[key].type # type

ValueString(j, key, default) ==
    IF key \in DOMAIN j.obj THEN j.obj[key].s ELSE default

ValueNumber(j, key, default) ==
    IF key \in DOMAIN j.obj THEN j.obj[key].n ELSE default

\* a parseStatus that only looks whether the member is there
parseStatus_anyStatus(data) ==
    IF Contains(data, "status") THEN "SUCCESS" ELSE "FAIL"

parseStatus(data) ==
    IF Contains(data, "status")
    THEN IF data.obj["status"] = JStr(<<"success">>) THEN "SUCCESS" ELSE "FAIL"
    ELSE "FAIL"

\* ------------------------------------------------------- GeoIpInformation
GeoIpInformation(query, status, data, message) ==
    [query |-> query, status |-> status, data |-> data, message |-> message]

\* a GeoIpSuccessData whose lat and lon are read from each other's member
GeoIpSuccessData_latLonSwapped(j) ==
    [country     |-> ValueString(j, "country", <<>>),
     countryCode |-> ValueString(j, "countryCode", <<>>),
     region      |-> ValueString(j, "region", <<>>),
     regionName  |-> ValueString(j, "regionName", <<>>),
     city        |-> ValueString(j, "city", <<>>),
     zip         |-> ValueString(j, "zip", <<>>),
     lat         |-> ValueNumber(j, "lon", 0),
     lon         |-> ValueNumber(j, "lat", 0),
     timezone    |-> ValueString(j, "timezone", <<>>),
     isp         |-> ValueString(j, "isp", <<>>),
     org         |-> ValueString(j, "org", <<>>),
     as          |-> ValueString(j, "as", <<>>)]

\* GeoIpSuccessData filled by lines 160-171
GeoIpSuccessData(j) ==
    [country     |-> ValueString(j, "country", <<>>),
     countryCode |-> ValueString(j, "countryCode", <<>>),
     region      |-> ValueString(j, "region", <<>>),
     regionName  |-> ValueString(j, "regionName", <<>>),
     city        |-> ValueString(j, "city", <<>>),
     zip         |-> ValueString(j, "zip", <<>>),
     lat         |-> ValueNumber(j, "lat", 0),
     lon         |-> ValueNumber(j, "lon", 0),
     timezone    |-> ValueString(j, "timezone", <<>>),
     isp         |-> ValueString(j, "isp", <<>>),
     org         |-> ValueString(j, "org", <<>>),
     as          |-> ValueString(j, "as", <<>>)]

\* the std::string connectionString declared at the top of finishRequest:
\* the block that derives the key declares a second variable of the same
\* name, so this one is never assigned
connectionString == <<>>

\* info built for an empty or all-whitespace body
EmptyResponseInfo ==
    GeoIpInformation(connectionString, "FAIL", {}, {<<"Empty response from server">>})

\* info built when query or status is missing
MissingFieldInfo ==
    GeoIpInformation(<<>>, "FAIL", {},
                     {<<"Invalid response format: missing 'query' or 'status'">>})

\* what() of json::parse_error
ParseDiagnostic == "[json.exception.parse_error.101] parse error"

\* info built in the catch block
ParseErrorInfo ==
    GeoIpInformation(<<>>, "FAIL", {},
                     {<<"JSON parse error: ", ParseDiagnostic, ", request data: ">>
                        \o connectionString})

\* an else branch that sets the message only when the payload has one
PayloadInfo_messageIfPresent(j) ==
    IF parseStatus(j) = "SUCCESS"
    THEN GeoIpInformation(ValueString(j, "query", <<>>), "SUCCESS", {GeoIpSuccessData(j)}, {})
    ELSE GeoIpInformation(ValueString(j, "query", <<>>), "FAIL", {},
                          IF Contains(j, "message")
                          THEN {ValueString(j, "message", <<>>)} ELSE {})

\* info built by lines 155-176 from a document with query and status
PayloadInfo(j) ==
    IF parseStatus(j) = "SUCCESS"
    THEN GeoIpInformation(ValueString(j, "query", <<>>), "SUCCESS", {GeoIpSuccessData(j)}, {})
    ELSE GeoIpInformation(ValueString(j, "query", <<>>), "FAIL", {},
                          {ValueString(j, "message", <<>>)})

\* a json::type_error leaves lines 155-176: only parse_error is caught
PayloadThrows(j) ==
    \/ ValueThrows(j, "query", "string")
    \/ /\ parseStatus(j) = "SUCCESS"
       /\ \/ \E f \in StringFields : ValueThrows(j, f, "string")
          \/ \E f \in NumberFields : ValueThrows(j, f, "number")
    \/ /\ parseStatus(j) # "SUCCESS"
       /\ ValueThrows(j, "message", "string")

\* a try block that rejects the payload only when both members are missing
ParseBody_bothMissing(body) ==
    IF body.text = "malformed"
    THEN [threw |-> FALSE, info |-> ParseErrorInfo]
    ELSE IF ~Contains(body.json, "query") /\ ~Contains(body.json, "status")
    THEN [threw |-> FALSE, info |-> MissingFieldInfo]
    ELSE IF PayloadThrows(body.json)
    THEN [threw |-> TRUE, info |-> MissingFieldInfo]
    ELSE [threw |-> FALSE, info |-> PayloadInfo(body.json)]

\* the try block of finishRequest on a non-empty body: the info handed to
\* the callback, or an exception that leaves finishRequest
ParseBody(body) ==
    IF body.text = "malformed"
    THEN [threw |-> FALSE, info |-> ParseErrorInfo]
    ELSE IF ~Contains(body.json, "query") \/ ~Contains(body.json, "status")
    THEN [threw |-> FALSE, info |-> MissingFieldInfo]
    ELSE IF PayloadThrows(body.json)
    THEN [threw |-> TRUE, info |-> MissingFieldInfo]
    ELSE [threw |-> FALSE, info |-> PayloadInfo(body.json)]

\* ------------------------------------------------------------------ state
Threads == {"caller", "transport"}
Free == "free"

VARIABLES
    m_CallbackMap,        \* std::map: connection string -> callback (the id of its resolve call)
    m_CallbackMapMutex,   \* Free, or the thread that holds the std::mutex
    pc,                   \* position of each thread
    frame,                \* arguments of the resolve() call each thread is in
    nCalls,               \* number of resolve() calls made so far
    replies,              \* the QNetworkReply of each resolve() call
    reply,                \* finishRequest: the reply argument, with what error() and readAll() return
    innerConnectionString,\* finishRequest: the key declared inside the locked block
    callback,             \* finishRequest: the captured callback (NoCall when empty)
    info,                 \* finishRequest: the GeoIpInformation about to be delivered
    emission,             \* replies whose deleteLater slot the running emission of finished calls
    issued,               \* history: the connection string of each resolve() call
    registered,           \* history: calls whose callback has been put in the map
    result,               \* history: how the running finishRequest ended
    invokeCount,          \* history: number of invocations of each callback
    lastCall,             \* history: the callback invocation in progress
    terminated            \* an exception left the event loop and ended the process

vars == <<m_CallbackMap, m_CallbackMapMutex, pc, frame, nCalls, replies, reply,
          innerConnectionString, callback, info, emission, issued, registered,
          result, invokeCount, lastCall, terminated>>

finishVars == <<reply, innerConnectionString, callback, info, emission>>
historyVars == <<issued, registered, result, invokeCount, lastCall>>

NoFrame == [connectionString |-> <<>>, callback |-> NoCall]
NoData == Body("empty", JArray)
NoReply == [url |-> <<>>, state |-> "none", connected |-> FALSE, deleteLater |-> FALSE]
NoReplyArg == [id |-> NoCall, error |-> FALSE, body |-> NoData]
NoInfo == GeoIpInformation(<<>>, "FAIL", {}, {})

Init ==
    /\ m_CallbackMap = [k \in {} |-> NoCall]
    /\ m_CallbackMapMutex = Free
    /\ pc = [t \in Threads |-> "idle"]
    /\ frame = [t \in Threads |-> NoFrame]
    /\ nCalls = 0
    /\ replies = [c \in CallIds |-> NoReply]
    /\ reply = NoReplyArg
    /\ innerConnectionString = <<>>
    /\ callback = NoCall
    /\ info = NoInfo
    /\ emission = {}
    /\ issued = [c \in CallIds |-> <<>>]
    /\ registered = {}
    /\ result = "none"
    /\ invokeCount = [c \in CallIds |-> 0]
    /\ lastCall = {}
    /\ terminated = FALSE

\* --------------------------------------------------------- map operations
\* an insertion that keeps an existing entry, as std::map::insert does
MapInsert_keepFirst(map, key, cb) ==
    [k \in DOMAIN map \cup {key} |-> IF k \in DOMAIN map THEN map[k] ELSE cb]

\* m_CallbackMap[key] = cb
MapInsert(map, key, cb) ==
    [k \in DOMAIN map \cup {key} |-> IF k = key THEN cb ELSE map[k]]

\* a finishRequest that forgets the erase
MapErase_keep(map, key) == map

\* m_CallbackMap.erase(it)
MapErase(map, key) == [k \in DOMAIN map \ {key} |-> map[k]]

\* a lock_guard temporary, destroyed at the end of its own statement
LockGuard_temporary(t) == Free

\* std::lock_guard< std::mutex > lock(m_CallbackMapMutex): the mutex is
\* held by the constructing thread while lock is in scope
LockGuard(t) == t

\* a lock_guard declared in the scope of the whole function: the mutex
\* stays locked after the block
MutexAfterFindBlock_held(t) == t

\* the lock_guard of the block in finishRequest is destroyed at the end of
\* the block (and at the early return inside it)
MutexAfterFindBlock(t) == Free

\* the lock_guard of the block in resolve is destroyed at the end of the block
MutexAfterInsertBlock(t) == Free

\* ---------------------------------------------------------------- resolve
\* where resolve() is entered: the caller thread calls it from its own code,
\* the event-loop thread from inside a callback it is running
ResolveEntry(t) == IF t = "caller" THEN "idle" ELSE "handler"

\* lines 73-79: build the request and hand it to the manager
resolve_get(t, key) ==
    /\ ~terminated
    /\ pc[t] = ResolveEntry(t)
    /\ nCalls < MaxCalls
    /\ nCalls' = nCalls + 1
    /\ frame' = [frame EXCEPT ![t] = [connectionString |-> key, callback |-> nCalls + 1]]
    /\ replies' = [replies EXCEPT ![nCalls + 1] =
                      [NoReply EXCEPT !.url = RequestUrl(key), !.state = "inflight"]]
    /\ issued' = [issued EXCEPT ![nCalls + 1] = key]
    /\ pc' = [pc EXCEPT ![t] = "resolve_connect"]
    /\ UNCHANGED <<m_CallbackMap, m_CallbackMapMutex, finishVars, registered,
                   result, invokeCount, lastCall, terminated>>

\* line 80: connect(manager, finished, rep, deleteLater)
resolve_connect(t) ==
    /\ ~terminated
    /\ pc[t] = "resolve_connect"
    /\ replies' = [replies EXCEPT ![frame[t].callback].connected = TRUE]
    /\ pc' = [pc EXCEPT ![t] = "resolve_lock"]
    /\ UNCHANGED <<m_CallbackMap, m_CallbackMapMutex, frame, nCalls, finishVars,
                   historyVars, terminated>>

\* line 82: lock_guard constructor
resolve_lock(t) ==
    /\ ~terminated
    /\ pc[t] = "resolve_lock"
    /\ m_CallbackMapMutex = Free
    /\ m_CallbackMapMutex' = LockGuard(t)
    /\ pc' = [pc EXCEPT ![t] = "resolve_insert"]
    /\ UNCHANGED <<m_CallbackMap, frame, nCalls, replies, finishVars, historyVars, terminated>>

\* line 83: m_CallbackMap[connectionString] = callback
resolve_insert(t) ==
    /\ ~terminated
    /\ pc[t] = "resolve_insert"
    /\ m_CallbackMap' = MapInsert(m_CallbackMap, frame[t].connectionString, frame[t].callback)
    /\ registered' = registered \cup {frame[t].callback}
    /\ pc' = [pc EXCEPT ![t] = "resolve_unlock"]
    /\ UNCHANGED <<m_CallbackMapMutex, frame, nCalls, replies, finishVars, issued,
                   result, invokeCount, lastCall, terminated>>

\* lines 84-86: lock_guard destructor, return
resolve_unlock(t) ==
    /\ ~terminated
    /\ pc[t] = "resolve_unlock"
    /\ m_CallbackMapMutex' = MutexAfterInsertBlock(t)
    /\ frame' = [frame EXCEPT ![t] = NoFrame]
    /\ pc' = [pc EXCEPT ![t] = ResolveEntry(t)]
    /\ UNCHANGED <<m_CallbackMap, nCalls, replies, finishVars, historyVars, terminated>>

\* ---------------------------------------------------------- finishRequest
\* the manager emits finished(rep) for a request that is in flight: the
\* slots connected at this moment are called in the order of connection,
\* finishRequest (connected in the constructor) first.  A reply with a
\* transport error carries no body the code ever looks at.
finished(rep, error, body) ==
    /\ ~terminated
    /\ pc["transport"] = "idle"
    /\ replies[rep].state = "inflight"
    /\ error => body = NoData
    /\ replies' = [replies EXCEPT ![rep].state = "finished"]
    /\ reply' = [id |-> rep, error |-> error, body |-> body]
    /\ emission' = { c \in CallIds : /\ replies[c].connected
                                     /\ replies[c].state \in {"inflight", "finished"} }
    /\ pc' = [pc EXCEPT !["transport"] = "finishRequest_lock"]
    /\ UNCHANGED <<m_CallbackMap, m_CallbackMapMutex, frame, nCalls,
                   innerConnectionString, callback, info, historyVars, terminated>>

\* line 111: lock_guard constructor
finishRequest_lock ==
    /\ ~terminated
    /\ pc["transport"] = "finishRequest_lock"
    /\ m_CallbackMapMutex = Free
    /\ m_CallbackMapMutex' = LockGuard("transport")
    /\ pc' = [pc EXCEPT !["transport"] = "finishRequest_find"]
    /\ UNCHANGED <<m_CallbackMap, frame, nCalls, replies, finishVars, historyVars, terminated>>

\* lines 114-122: derive the key from the URL, find, capture and erase
finishRequest_find ==
    /\ ~terminated
    /\ pc["transport"] = "finishRequest_find"
    /\ LET key == DerivedKey(replies[reply.id].url)
       IN  /\ innerConnectionString' = key
           /\ IF key \notin DOMAIN m_CallbackMap
              THEN /\ result' = "unmatched"
                   /\ UNCHANGED <<m_CallbackMap, callback>>
              ELSE /\ callback' = m_CallbackMap[key]
                   /\ m_CallbackMap' = MapErase(m_CallbackMap, key)
                   /\ result' = "captured"
    /\ pc' = [pc EXCEPT !["transport"] = "finishRequest_unlock"]
    /\ UNCHANGED <<m_CallbackMapMutex, frame, nCalls, replies, reply, info,
                   emission, issued, registered, invokeCount, lastCall, terminated>>

\* lines 118 and 123: the block ends (or returns), the lock_guard is destroyed
finishRequest_unlock ==
    /\ ~terminated
    /\ pc["transport"] = "finishRequest_unlock"
    /\ m_CallbackMapMutex' = MutexAfterFindBlock("transport")
    /\ innerConnectionString' = <<>>
    /\ pc' = [pc EXCEPT !["transport"] =
                 IF result = "unmatched" THEN "finished_slots" ELSE "finishRequest_error"]
    /\ UNCHANGED <<m_CallbackMap, frame, nCalls, replies, reply, callback, info,
                   emission, historyVars, terminated>>

\* an error test that never fires
ReplyHasError_never(r) == FALSE

\* line 125: reply->error()
ReplyHasError(r) == r.error

\* lines 125-128: a transport error returns without calling the callback
finishRequest_error ==
    /\ ~terminated
    /\ pc["transport"] = "finishRequest_error"
    /\ IF ReplyHasError(reply)
       THEN /\ result' = "dropped"
            /\ pc' = [pc EXCEPT !["transport"] = "finished_slots"]
       ELSE /\ pc' = [pc EXCEPT !["transport"] = "finishRequest_read"]
            /\ UNCHANGED result
    /\ UNCHANGED <<m_CallbackMap, m_CallbackMapMutex, frame, nCalls, replies,
                   finishVars, issued, registered, invokeCount, lastCall, terminated>>

\* auto data = reply->readAll()
data == reply.body

\* lines 130-136: readAll, and the info for an empty or all-whitespace body
finishRequest_read ==
    /\ ~terminated
    /\ pc["transport"] = "finishRequest_read"
    /\ IF data.text \in {"empty", "blank"}
       THEN /\ info' = EmptyResponseInfo
            /\ pc' = [pc EXCEPT !["transport"] = "finishRequest_callback"]
       ELSE /\ pc' = [pc EXCEPT !["transport"] = "finishRequest_parse"]
            /\ UNCHANGED info
    /\ UNCHANGED <<m_CallbackMap, m_CallbackMapMutex, frame, nCalls, replies, reply,
                   innerConnectionString, callback, emission, historyVars, terminated>>

\* lines 143-181: parse the body and build the info; a json::type_error is
\* not caught and leaves finishRequest
finishRequest_parse ==
    /\ ~terminated
    /\ pc["transport"] = "finishRequest_parse"
    /\ LET parsed == ParseBody(data)
       IN  IF parsed.threw
           THEN /\ result' = "threw"
                /\ pc' = [pc EXCEPT !["transport"] = "exception"]
                /\ UNCHANGED info
           ELSE /\ info' = parsed.info
                /\ pc' = [pc EXCEPT !["transport"] = "finishRequest_callback"]
                /\ UNCHANGED result
    /\ UNCHANGED <<m_CallbackMap, m_CallbackMapMutex, frame, nCalls, replies, reply,
                   innerConnectionString, callback, emission, issued, registered,
                   invokeCount, lastCall, terminated>>

\* lines 137, 151, 183: callback(info)
finishRequest_callback ==
    /\ ~terminated
    /\ pc["transport"] = "finishRequest_callback"
    /\ result' = "invoked"
    /\ invokeCount' = [invokeCount EXCEPT ![callback] = @ + 1]
    /\ lastCall' = {[reply |-> reply.id, callback |-> callback, info |-> info, data |-> data]}
    /\ pc' = [pc EXCEPT !["transport"] = "handler"]
    /\ UNCHANGED <<m_CallbackMap, m_CallbackMapMutex, frame, nCalls, replies, finishVars,
                   issued, registered, terminated>>

\* the callback returns, and finishRequest returns after it
handler_return ==
    /\ ~terminated
    /\ pc["transport"] = "handler"
    /\ lastCall' = {}
    /\ pc' = [pc EXCEPT !["transport"] = "finished_slots"]
    /\ UNCHANGED <<m_CallbackMap, m_CallbackMapMutex, frame, nCalls, replies, finishVars,
                   issued, registered, result, invokeCount, terminated>>

\* finishRequest has returned; the remaining slots of the emission run:
\* deleteLater of every reply that was connected (line 80) when the
\* emission started, whichever reply it is that finished
finished_slots ==
    /\ ~terminated
    /\ pc["transport"] = "finished_slots"
    /\ replies' = [c \in CallIds |->
                      IF c \in emission THEN [replies[c] EXCEPT !.deleteLater = TRUE]
                      ELSE replies[c]]
    /\ reply' = NoReplyArg
    /\ callback' = NoCall
    /\ info' = NoInfo
    /\ emission' = {}
    /\ result' = "none"
    /\ pc' = [pc EXCEPT !["transport"] = "idle"]
    /\ UNCHANGED <<m_CallbackMap, m_CallbackMapMutex, frame, nCalls,
                   innerConnectionString, issued, registered, invokeCount, lastCall,
                   terminated>>

\* back in the event loop, the deferred deletions run: a reply that is still
\* in flight is destroyed with its request, and never emits finished
ToDelete == { c \in CallIds : /\ replies[c].deleteLater
                              /\ replies[c].state \in {"inflight", "finished"} }

deferredDelete ==
    /\ ~terminated
    /\ pc["transport"] = "idle"
    /\ ToDelete # {}
    /\ replies' = [c \in CallIds |->
                      IF c \in ToDelete
                      THEN [replies[c] EXCEPT
                              !.state = IF replies[c].state = "inflight"
                                        THEN "cancelled" ELSE "deleted",
                              !.connected = FALSE]
                      ELSE replies[c]]
    /\ UNCHANGED <<m_CallbackMap, m_CallbackMapMutex, pc, frame, nCalls, finishVars,
                   historyVars, terminated>>

\* an exception that leaves a slot is undefined behaviour for Qt: the
\* process is terminated, or the event loop carries on
exception_terminate ==
    /\ ~terminated
    /\ pc["transport"] = "exception"
    /\ terminated' = TRUE
    /\ UNCHANGED <<m_CallbackMap, m_CallbackMapMutex, pc, frame, nCalls, replies,
                   finishVars, historyVars>>

exception_continue ==
    /\ ~terminated
    /\ pc["transport"] = "exception"
    /\ reply' = NoReplyArg
    /\ callback' = NoCall
    /\ info' = NoInfo
    /\ emission' = {}
    /\ result' = "none"
    /\ pc' = [pc EXCEPT !["transport"] = "idle"]
    /\ UNCHANGED <<m_CallbackMap, m_CallbackMapMutex, frame, nCalls, replies,
                   innerConnectionString, issued, registered, invokeCount, lastCall,
                   terminated>>

\* ---------------------------------------------------------- specification
Next ==
    \/ \E t \in Threads, key \in Keys : resolve_get(t, key)
    \/ \E t \in Threads : resolve_connect(t)
    \/ \E t \in Threads : resolve_lock(t)
    \/ \E t \in Threads : resolve_insert(t)
    \/ \E t \in Threads : resolve_unlock(t)
    \/ \E rep \in CallIds, error \in BOOLEAN, body \in Bodies : finished(rep, error, body)
    \/ finishRequest_lock
    \/ finishRequest_find
    \/ finishRequest_unlock
    \/ finishRequest_error
    \/ finishRequest_read
    \/ finishRequest_parse
    \/ finishRequest_callback
    \/ handler_return
    \/ finished_slots
    \/ deferredDelete
    \/ exception_terminate
    \/ exception_continue

Spec == Init /\ [][Next]_vars

\* ---------------------------------------- specification of the payloads
\* one lookup is pending and its request completes with any payload of a
\* large family: every subset of the twelve optional members on a success
\* payload, failure payloads, payloads without query or status
OptionalFields == StringFields \cup NumberFields

\* the value the service sends for an optional member
FieldValue(f) ==
    IF f = "lat" THEN JNum(37)
    ELSE IF f = "lon" THEN JNum(-97)
    ELSE JStr(<<"value of", f>>)

\* {"query": "b", "status": status, ...members}
Payload(status, members) ==
    JObject([f \in members \cup {"query", "status"} |->
                IF f = "query" THEN JStr(<<"b">>)
                ELSE IF f = "status" THEN status
                ELSE IF f = "message" THEN JStr(<<"invalid query">>)
                ELSE FieldValue(f)])

\* a payload without the members in missing
Without(j, missing) == JObject([f \in DOMAIN j.obj \ missing |-> j.obj[f]])

PayloadBodies ==
    Bodies
    \cup { Body("json", Payload(JStr(<<"success">>), members)) :
              members \in SUBSET OptionalFields }
    \cup { Body("json", Payload(status, members)) :
              status \in {JStr(<<"fail">>), JStr(<<"SUCCESS">>), JStr(<<>>), JNum(1)},
              members \in {{}, {"message"}, {"message", "country"}} }
    \cup { Body("json", Without(Payload(status, members), missing)) :
              status \in {JStr(<<"success">>), JStr(<<"fail">>)},
              members \in {{}, {"message"}, {"country", "lat"}},
              missing \in {{"query"}, {"status"}, {"query", "status"}} }

\* the state after one resolve(key, h) has returned
PayloadInit ==
    \E key \in Keys :
        /\ m_CallbackMap = MapInsert([k \in {} |-> NoCall], key, 1)
        /\ m_CallbackMapMutex = Free
        /\ pc = [t \in Threads |-> "idle"]
        /\ frame = [t \in Threads |-> NoFrame]
        /\ nCalls = 1
        /\ replies = [c \in CallIds |->
                        IF c = 1
                        THEN [NoReply EXCEPT !.url = RequestUrl(key), !.state = "inflight",
                                             !.connected = TRUE]
                        ELSE NoReply]
        /\ reply = NoReplyArg
        /\ innerConnectionString = <<>>
        /\ callback = NoCall
        /\ info = NoInfo
        /\ emission = {}
        /\ issued = [c \in CallIds |-> IF c = 1 THEN key ELSE <<>>]
        /\ registered = {1}
        /\ result = "none"
        /\ invokeCount = [c \in CallIds |-> 0]
        /\ lastCall = {}
        /\ terminated = FALSE

PayloadNext ==
    \/ /\ pc["transport"] = "idle"
       /\ replies[1].state = "inflight"
       /\ \E error \in BOOLEAN, body \in PayloadBodies : finished(1, error, body)
    \/ finishRequest_lock
    \/ finishRequest_find
    \/ finishRequest_unlock
    \/ finishRequest_error
    \/ finishRequest_read
    \/ finishRequest_parse
    \/ finishRequest_callback
    \/ handler_return
    \/ finished_slots
    \/ deferredDelete
    \/ exception_terminate
    \/ exception_continue

PayloadSpec == PayloadInit /\ [][PayloadNext]_vars

\* ------------------------------------------------------------ properties
TypeOK ==
    /\ m_CallbackMapMutex \in Threads \cup {Free}
    /\ nCalls \in 0..MaxCalls
    /\ \A k \in DOMAIN m_CallbackMap : m_CallbackMap[k] \in 1..nCalls
    /\ registered \subseteq 1..nCalls
    /\ result \in {"none", "unmatched", "captured", "dropped", "invoked", "threw"}
    /\ Cardinality(lastCall) <= 1

\* positions at which a thread is inside a lock_guard block
InCriticalSection(t) ==
    pc[t] \in {"resolve_insert", "resolve_unlock", "finishRequest_find", "finishRequest_unlock"}

\* positions at which a thread waits for the mutex
WaitsForMutex(t) == pc[t] \in {"resolve_lock", "finishRequest_lock"}

\* the resolve call c is the only one made with its connection string
OnlyCallForKey(c) ==
    \A d \in 1..nCalls : d # c => issued[d] # issued[c]

\* the key finishRequest derives for the reply of call c
ReplyKey(c) == DerivedKey(replies[c].url)

\* a body that parses to an object with a string query, status "success"
\* and fields of the expected types
SuccessBody(body) ==
    /\ body.text = "json"
    /\ Contains(body.json, "query")
    /\ Contains(body.json, "status")
    /\ parseStatus(body.json) = "SUCCESS"
    /\ ~PayloadThrows(body.json)

\* C1: whenever a handler is invoked with the result of a completed request,
\* it is the handler passed to the resolve call that issued that request.
C1_CorrectRouting ==
    \A call \in lastCall : call.callback = call.reply

\* C2: when finishRequest has returned for the single completion, without
\* error and with a well-formed success payload, of the only resolve call made
\* for a key, the handler of that call has been invoked exactly once, with
\* status SUCCESS and data present.
C2_SingleSuccessDelivered ==
    ( /\ pc["transport"] = "finished_slots"
      /\ ~reply.error
      /\ SuccessBody(reply.body)
      /\ OnlyCallForKey(reply.id) )
    => /\ result = "invoked"
       /\ callback = reply.id
       /\ invokeCount[reply.id] = 1
       /\ info.status = "SUCCESS"
       /\ info.data # {}

\* C3: the handler is registered before the request is handed to the
\* transport, so whenever finishRequest has looked up the key of a completed
\* request, the resolve call of that request has already registered it.
C3_RegisteredBeforeCompletion ==
    result # "none" => reply.id \in registered

\* C4: the handler of a resolve call that is the only one for its key is
\* invoked at most once, whatever completions arrive.
C4_AtMostOnce ==
    \A c \in 1..nCalls : OnlyCallForKey(c) => invokeCount[c] <= 1

\* C4 witness: the handler has been invoked once, and a later completion
\* whose URL yields the same key has been looked up and found nothing.
C4_Witness ==
    \E c \in 1..nCalls :
        /\ OnlyCallForKey(c)
        /\ invokeCount[c] = 1
        /\ reply.id \notin {NoCall, c}
        /\ ReplyKey(reply.id) = issued[c]
        /\ result = "unmatched"

\* C5: from the capture on, and so whenever the handler is invoked, the
\* captured entry is no longer in the pending map.
C5_RemovedBeforeInvocation ==
    callback # NoCall => \A k \in DOMAIN m_CallbackMap : m_CallbackMap[k] # callback

\* C5 witness: a handler is being invoked and its key is not in the map.
C5_Witness ==
    /\ pc["transport"] = "handler"
    /\ lastCall # {}
    /\ \A call \in lastCall : issued[call.callback] \notin DOMAIN m_CallbackMap

\* C6: with lookups for distinct keys in flight, processing the completion
\* of one leaves the pending entries of the other keys unchanged and never
\* cancels the request of another key.
C6_Independence ==
    [][ /\ \A b \in 1..nCalls :
             ( /\ replies[b].state = "inflight"
               /\ \A a \in 1..nCalls : a # b => ReplyKey(a) # ReplyKey(b) )
             => replies'[b].state # "cancelled"
        /\ pc["transport"] = "finishRequest_find"
             => \A k \in DOMAIN m_CallbackMap \ {ReplyKey(reply.id)} :
                   k \in DOMAIN m_CallbackMap' /\ m_CallbackMap'[k] = m_CallbackMap[k]
      ]_vars

\* C7: a thread holds the mutex only inside the find/erase block of
\* finishRequest and the insertion block of resolve: never while
\* finishRequest checks the error, reads or parses the body, or calls the
\* handler.
C7_LockScope ==
    /\ \A t \in Threads : m_CallbackMapMutex = t => InCriticalSection(t)
    /\ pc["transport"] \in {"finishRequest_error", "finishRequest_read", "finishRequest_parse",
                            "finishRequest_callback", "handler", "finished_slots", "exception"}
          => m_CallbackMapMutex # "transport"

\* C7 witness: finishRequest parses a body while the caller thread is inside
\* the insertion block of resolve.
C7_Witness ==
    /\ pc["transport"] = "finishRequest_parse"
    /\ m_CallbackMapMutex = "caller"
    /\ pc["caller"] = "resolve_insert"

\* C8: a thread that waits for the mutex never waits for itself, and the
\* holder it waits for is inside a block that runs to its unlock without
\* waiting; this covers resolve called from inside a handler.
C8_DeadlockFree ==
    \A t \in Threads :
        WaitsForMutex(t) =>
            /\ m_CallbackMapMutex # t
            /\ \A u \in Threads : m_CallbackMapMutex = u =>
                   InCriticalSection(u) /\ ~WaitsForMutex(u)

\* C8 witness: resolve called from inside a handler holds the mutex while
\* the caller thread waits for it in its own resolve.
C8_Witness ==
    /\ lastCall # {}
    /\ pc["transport"] = "resolve_insert"
    /\ m_CallbackMapMutex = "transport"
    /\ pc["caller"] = "resolve_lock"

\* C9: a completion without transport error whose key is pending ends in a
\* handler invocation, for every class of body; no exception leaves
\* finishRequest.
C9_AlwaysDelivered ==
    /\ pc["transport"] # "exception"
    /\ ( /\ pc["transport"] = "finished_slots"
         /\ ~reply.error
         /\ result # "unmatched" )
       => result = "invoked"

\* C10: for an empty or all-whitespace body the handler gets status FAIL,
\* the message "Empty response from server" and the lookup key as query.
C10_EmptyBody ==
    \A call \in lastCall :
        call.data.text \in {"empty", "blank"} =>
            /\ call.info.status = "FAIL"
            /\ call.info.message = {<<"Empty response from server">>}
            /\ call.info.query = issued[call.callback]

\* the tail of s that is as long as t
Tail_(s, t) == SubSeq(s, Len(s) - Len(t) + 1, Len(s))

\* C11: for a body that fails to parse the handler gets status FAIL, no
\* data, and a non-empty message that contains the parser's diagnostic
\* followed by the lookup key of the request.
C11_MalformedJson ==
    \A call \in lastCall :
        call.data.text = "malformed" =>
            /\ call.info.status = "FAIL"
            /\ call.info.data = {}
            /\ \E m \in call.info.message :
                  /\ m # <<>>
                  /\ \E i \in 1..Len(m) : m[i] = ParseDiagnostic
                  /\ Len(m) >= Len(issued[call.reply])
                  /\ Tail_(m, issued[call.reply]) = issued[call.reply]

\* a body that parses but lacks query or status (or is no object at all)
LacksRequired(body) ==
    /\ body.text = "json"
    /\ ~Contains(body.json, "query") \/ ~Contains(body.json, "status")

\* C12: a parsed payload without query or without status gets exactly one
\* handler invocation, with status FAIL and the message "Invalid response
\* format: missing 'query' or 'status'", whatever its other members are.
C12_MissingFields ==
    /\ \A call \in lastCall :
          LacksRequired(call.data) =>
              /\ call.info.status = "FAIL"
              /\ call.info.message =
                    {<<"Invalid response format: missing 'query' or 'status'">>}
              /\ invokeCount[call.callback] = 1
    /\ ( /\ pc["transport"] = "finished_slots"
         /\ ~reply.error
         /\ result # "unmatched"
         /\ LacksRequired(reply.body) )
       => result = "invoked" /\ invokeCount[callback] = 1

\* C12 witness: a payload with status "success" and no query has been
\* delivered as FAIL.
C12_Witness ==
    \E call \in lastCall :
        /\ call.data.text = "json"
        /\ ~Contains(call.data.json, "query")
        /\ parseStatus(call.data.json) = "SUCCESS"
        /\ call.info.status = "FAIL"

\* C13: on a success payload every field of the delivered GeoIpSuccessData
\* equals the payload's member when it is present, and the default (empty
\* string, 0 for lat and lon) when it is absent.
C13_FieldDefaults ==
    \A call \in lastCall :
        SuccessBody(call.data) =>
            /\ call.info.data # {}
            /\ \A d \in call.info.data :
                  LET obj == call.data.json.obj
                  IN  /\ \A f \in StringFields :
                            d[f] = IF f \in DOMAIN obj THEN obj[f].s ELSE <<>>
                      /\ \A f \in NumberFields :
                            d[f] = IF f \in DOMAIN obj THEN obj[f].n ELSE 0

\* C13 witness: a success payload with country, lat and lon only has been
\* delivered with these three values and every other field at its default.
C13_Witness ==
    \E call \in lastCall :
        /\ SuccessBody(call.data)
        /\ DOMAIN call.data.json.obj = {"query", "status", "country", "lat", "lon"}
        /\ \E d \in call.info.data :
              /\ d.country = <<"value of", "country">>
              /\ d.lat = 37
              /\ d.lon = -97
              /\ d.city = <<>>
              /\ d.isp = <<>>

\* C14: in every GeoIpInformation passed to a handler, data is present
\* exactly when status is SUCCESS and message exactly when it is not.
C14_ResultShape ==
    \A call \in lastCall :
        /\ call.info.data # {} <=> call.info.status = "SUCCESS"
        /\ call.info.message # {} <=> call.info.status # "SUCCESS"

\* C14 witness: a payload with a non-success status and no message member
\* has been delivered with a message (the empty string) and no data.
C14_Witness ==
    \E call \in lastCall :
        /\ call.data.text = "json"
        /\ Contains(call.data.json, "query")
        /\ Contains(call.data.json, "status")
        /\ ~Contains(call.data.json, "message")
        /\ call.info.status = "FAIL"
        /\ call.info.message = {<<>>}
        /\ call.info.data = {}

\* C15: a lookup reaches a terminal state at most once (its handler is
\* never invoked a second time), the delivered status is SUCCESS or FAIL,
\* never TIMEOUT, and it is SUCCESS exactly when the body parses, contains
\* query and status, and status is the string "success".
C15_StateMachine ==
    /\ \A c \in CallIds : invokeCount[c] <= 1
    /\ \A call \in lastCall :
          /\ call.info.status \in {"SUCCESS", "FAIL"}
          /\ call.info.status = "SUCCESS" <=>
                /\ call.data.text = "json"
                /\ Contains(call.data.json, "query")
                /\ Contains(call.data.json, "status")
                /\ call.data.json.obj["status"] = JStr(<<"success">>)

\* C15 witness: one lookup has ended, and another one is being delivered as
\* FAIL from a payload whose status is not "success".
C15_Witness ==
    \E call \in lastCall :
        /\ call.data.text = "json"
        /\ Contains(call.data.json, "query")
        /\ Contains(call.data.json, "status")
        /\ call.info.status = "FAIL"
        /\ \E c \in CallIds : c # call.callback /\ invokeCount[c] = 1

\* C16: the key finishRequest derives from the URL of a request is the
\* connection string its resolve call registered the handler under.
C16_KeyRoundTrip ==
    \A c \in 1..nCalls : ReplyKey(c) = issued[c]

\* the callbacks the pending map holds
Pending == { m_CallbackMap[k] : k \in DOMAIN m_CallbackMap }

\* C17: when finishRequest processes a completion with a transport error
\* whose key is pending, the entry has been erased and the captured handler
\* is not invoked for it; a handler that is neither in the map nor captured
\* by the running finishRequest is never invoked afterwards, so the dropped
\* registration gets no result at all.
C17_ErrorDropsCallback ==
    [][ /\ ( /\ pc["transport"] = "finishRequest_error"
             /\ pc'["transport"] # "finishRequest_error"
             /\ reply.error )
           => /\ result' = "dropped"
              /\ invokeCount' = invokeCount
              /\ invokeCount[callback] = 0
              /\ lastCall' = {}
              /\ callback \notin Pending
        /\ result = "dropped" => invokeCount[callback] = 0 /\ callback \notin Pending
        /\ \A c \in registered :
              (c # callback /\ c \notin Pending) => invokeCount'[c] = invokeCount[c]
      ]_vars

\* C17 witness: finishRequest has returned for a completion with a
\* transport error whose key was pending, without invoking the handler.
C17_Witness ==
    /\ pc["transport"] = "finished_slots"
    /\ reply.error
    /\ result = "dropped"
    /\ callback # NoCall
    /\ invokeCount[callback] = 0

\* C18: resolve(k, h2) after resolve(k, h1) leaves one entry for k, mapping
\* to h2, and h1 has not been invoked; a completion whose URL yields k
\* captures and removes the entry it finds, the next one finds none and
\* is discarded; h1, which is no longer in the map, is never invoked.
C18_OverwriteOnDuplicate ==
    [][ /\ \A t \in Threads :
              (pc[t] = "resolve_insert" /\ pc'[t] # "resolve_insert") =>
                  LET k == frame[t].connectionString
                  IN  /\ DOMAIN m_CallbackMap' = DOMAIN m_CallbackMap \cup {k}
                      /\ m_CallbackMap'[k] = frame[t].callback
                      /\ \A j \in DOMAIN m_CallbackMap \ {k} :
                            m_CallbackMap'[j] = m_CallbackMap[j]
                      /\ k \in DOMAIN m_CallbackMap => invokeCount[m_CallbackMap[k]] = 0
        /\ (pc["transport"] = "finishRequest_find" /\ pc'["transport"] # "finishRequest_find") =>
              LET k == ReplyKey(reply.id)
              IN  IF k \in DOMAIN m_CallbackMap
                  THEN /\ callback' = m_CallbackMap[k]
                       /\ k \notin DOMAIN m_CallbackMap'
                       /\ result' = "captured"
                  ELSE /\ callback' = NoCall
                       /\ m_CallbackMap' = m_CallbackMap
                       /\ result' = "unmatched"
        /\ \A c \in registered :
              (c \notin Pending /\ c # callback /\ invokeCount[c] = 0) => invokeCount'[c] = 0
      ]_vars

\* C18 witness: two resolve calls for one key and nothing else; the first
\* completion invoked the handler of the second call, the second completion
\* has found no entry, and the handler of the first call was never invoked.
C18_Witness ==
    /\ nCalls = 2
    /\ issued[1] = issued[2]
    /\ registered = {1, 2}
    /\ invokeCount[2] = 1
    /\ invokeCount[1] = 0
    /\ pc["transport"] = "finished_slots"
    /\ result = "unmatched"
    /\ ReplyKey(reply.id) = issued[1]
    /\ \A c \in {1, 2} : replies[c].state \in {"finished", "deleted"}

\* the request of call c has not completed
NotCompleted(c) == replies[c].state \in {"inflight", "cancelled"}

\* C19: a completion whose derived key is not in the map invokes no handler
\* and leaves the map unchanged; a key leaves the map only through a
\* completion that derives this key; so the entry of a registered lookup
\* whose request has not completed is still in the map.
C19_UnmatchedNoOp ==
    [][ /\ result = "unmatched" =>
              /\ m_CallbackMap' # m_CallbackMap => pc'["transport"] = pc["transport"]
              /\ invokeCount' = invokeCount
        /\ \A k \in DOMAIN m_CallbackMap \ DOMAIN m_CallbackMap' :
              /\ pc["transport"] = "finishRequest_find"
              /\ ReplyKey(reply.id) = k
        /\ \A c \in registered : NotCompleted(c) => issued[c] \in DOMAIN m_CallbackMap
      ]_vars

\* C20: a thread that reads, inserts into or erases from the callback map
\* (and until it leaves the block) holds the mutex, and at most one thread
\* is inside such a block at any time.
C20_MutualExclusion ==
    /\ \A t \in Threads : InCriticalSection(t) => m_CallbackMapMutex = t
    /\ Cardinality({ t \in Threads : InCriticalSection(t) }) <= 1

\* C20 witness: finishRequest is in its find/erase block while the caller
\* thread, inside resolve, waits for the mutex.
C20_Witness ==
    /\ pc["transport"] = "finishRequest_find"
    /\ m_CallbackMapMutex = "transport"
    /\ pc["caller"] = "resolve_lock"

====
